---------------------------- MODULE Spec2Model ----------------------------
(***************************************************************************)
(* A model of the DDMRP planning engine of ddmrp-backend:                  *)
(*   src/logic/ddmrp_engine.py  classifiers and buffer-zone sizing         *)
(*   src/logic/netflow.py       net flow                                   *)
(*   src/app/old_main.py        the per-SKU orchestrator and the           *)
(*                              production decision                        *)
(*   src/cleaning/clean_inputs.py  the master parameters handed to it      *)
(*                                                                         *)
(* Numbers.  The program computes in float64.  The model computes in exact *)
(* rationals <<n, d>> (d > 0, lowest terms), with <<0, 0>> standing for    *)
(* NaN: every comparison with NaN is false and every arithmetic result on  *)
(* NaN is NaN, as in IEEE arithmetic.  Python's None in the place of a     *)
(* number is <<0, -1>>, in the place of a Series the one-element sequence  *)
(* of it.                                                                  *)
(***************************************************************************)
EXTENDS Integers, Sequences, FiniteSets, TLC

----------------------------------------------------------------------------
(* Rational arithmetic (the float arithmetic of the program, made exact).  *)

Abs(x) == IF x < 0 THEN -x ELSE x

RECURSIVE Gcd(_, _)
Gcd(a, b) == IF b = 0 THEN a ELSE Gcd(b, a % b)

NaN == <<0, 0>>

IsNaN(a) == a[2] = 0

None == <<0, -1>>

NoSeries == <<None>>

\* the rational n/d in lowest terms, d /= 0
R(n, d) ==
    LET g == Gcd(Abs(n), Abs(d))
        s == IF d < 0 THEN -1 ELSE 1
    IN  <<(s * n) \div g, (s * d) \div g>>

Rat(n) == <<n, 1>>

\* a and b (numbers) brought to their least common denominator:
\* <<numerator of a, numerator of b, denominator>>
Common(a, b) ==
    LET g == Gcd(a[2], b[2])
    IN  <<a[1] * (b[2] \div g), b[1] * (a[2] \div g), a[2] * (b[2] \div g)>>

RAdd(a, b) == IF IsNaN(a) \/ IsNaN(b) THEN NaN
              ELSE LET c == Common(a, b) IN R(c[1] + c[2], c[3])

RSub(a, b) == IF IsNaN(a) \/ IsNaN(b) THEN NaN
              ELSE LET c == Common(a, b) IN R(c[1] - c[2], c[3])

RMul(a, b) == IF IsNaN(a) \/ IsNaN(b) THEN NaN
              ELSE R(a[1] * b[1], a[2] * b[2])

\* a / b for b /= 0
RDiv(a, b) == IF IsNaN(a) \/ IsNaN(b) THEN NaN
              ELSE R(a[1] * b[2], a[2] * b[1])

\* a < b, a <= b: false as soon as one side is NaN
RLt(a, b) == ~IsNaN(a) /\ ~IsNaN(b) /\ LET c == Common(a, b) IN c[1] < c[2]

RLe(a, b) == ~IsNaN(a) /\ ~IsNaN(b) /\ LET c == Common(a, b) IN c[1] <= c[2]

\* Python's max(a, b): b when b > a, else a (so a NaN second argument loses)
RMax(a, b) == IF RLt(a, b) THEN b ELSE a

\* integer floor and ceiling of a rational that is a number
Floor(a) == a[1] \div a[2]

Ceil(a) == -((-a[1]) \div a[2])

\* Python's round(x) on a float: nearest integer, exact halves to the even one
RoundHalfEven(a) ==
    LET f == Floor(a)
        twice == RSub(RMul(Rat(2), a), Rat(2 * f))   \* 2 * fractional part
    IN  IF RLt(twice, Rat(1)) THEN f
        ELSE IF RLt(Rat(1), twice) THEN f + 1
        ELSE IF f % 2 = 0 THEN f ELSE f + 1

----------------------------------------------------------------------------
(* src/logic/ddmrp_engine.py: the classifiers                              *)

EXCEPTION_SKU == 573602

\* a slip of lines 8-10: the band boundaries made exclusive
classify_lead_time_factor_strict(lead_time_weeks) ==
    IF RLt(lead_time_weeks, Rat(2)) THEN R(3, 4)
    ELSE IF RLt(lead_time_weeks, Rat(4)) THEN R(1, 2)
    ELSE R(3, 10)

\* classify_lead_time_factor(lead_time_weeks)
classify_lead_time_factor(lead_time_weeks) ==
    IF RLe(lead_time_weeks, Rat(2)) THEN R(3, 4)
    ELSE IF RLe(lead_time_weeks, Rat(4)) THEN R(1, 2)
    ELSE R(3, 10)

\* the sequence s with the rational x inserted before the first larger element
RECURSIVE Insert(_, _)
Insert(x, s) ==
    IF s = <<>> THEN <<x>>
    ELSE IF RLe(x, Head(s)) THEN <<x>> \o s
    ELSE <<Head(s)>> \o Insert(x, Tail(s))

\* the non-NaN values of the sequence s in nondecreasing order
RECURSIVE SortedValues(_)
SortedValues(s) ==
    IF s = <<>> THEN <<>>
    ELSE IF IsNaN(Head(s)) THEN SortedValues(Tail(s))
    ELSE Insert(Head(s), SortedValues(Tail(s)))

\* pandas Series.quantile(pct / 100): NaN skipped, linear interpolation
\* between the two order statistics around position (n - 1) * pct / 100
quantile(all_covs, pct) ==
    LET v == SortedValues(all_covs)
        n == Len(v)
        h == (n - 1) * pct
        i == h \div 100
        t == R(h % 100, 100)
    IN  IF n = 0 THEN NaN
        ELSE IF h % 100 = 0 THEN v[i + 1]
        ELSE RAdd(v[i + 1], RMul(t, RSub(v[i + 2], v[i + 1])))

\* a slip of lines 25-28: the factors of the two upper bands exchanged
classify_variability_factor_swapped(cov, all_covs, sku) ==
    IF sku = EXCEPTION_SKU THEN R(3, 2)
    ELSE IF RLe(cov, quantile(all_covs, 33)) THEN R(3, 10)
    ELSE IF RLe(cov, quantile(all_covs, 66)) THEN R(4, 5)
    ELSE R(1, 2)

\* classify_variability_factor(cov, all_covs, sku); sku = 0 stands for None
classify_variability_factor(cov, all_covs, sku) ==
    IF sku = EXCEPTION_SKU THEN R(3, 2)
    ELSE LET low_thresh == quantile(all_covs, 33)
             high_thresh == quantile(all_covs, 66)
         IN  IF RLe(cov, low_thresh) THEN R(3, 10)
             ELSE IF RLe(cov, high_thresh) THEN R(1, 2)
             ELSE R(4, 5)

----------------------------------------------------------------------------
(* src/logic/ddmrp_engine.py: usage estimation and buffer-zone sizing      *)
(*                                                                         *)
(* A data frame is a sequence of rows, a row a record with the columns     *)
(* Week, QuantitySold, Inventory, ProductionOrders and MRPType.  Week      *)
(* labels are modelled by their rank 1, 2, ... in the chronological order; *)
(* 0 stands for "no week" (None).                                          *)

\* the values of column QuantitySold of the rows of df
QuantitySold(df) == [i \in 1..Len(df) |-> df[i].QuantitySold]

\* pandas Series.sum(): the sum of the non-NaN values, 0 when there is none
RECURSIVE Sum(_)
Sum(s) ==
    IF s = <<>> THEN Rat(0)
    ELSE IF IsNaN(Head(s)) THEN Sum(Tail(s))
    ELSE RAdd(Head(s), Sum(Tail(s)))

\* the number of non-NaN values of s (pandas count())
RECURSIVE Count(_)
Count(s) ==
    IF s = <<>> THEN 0
    ELSE (IF IsNaN(Head(s)) THEN 0 ELSE 1) + Count(Tail(s))

\* the sum of the squared deviations of the non-NaN values of s from m
RECURSIVE SumSq(_, _)
SumSq(s, m) ==
    IF s = <<>> THEN Rat(0)
    ELSE IF IsNaN(Head(s)) THEN SumSq(Tail(s), m)
    ELSE RAdd(RMul(RSub(Head(s), m), RSub(Head(s), m)), SumSq(Tail(s), m))

\* the largest k in lo..hi with k * k <= x  (lo * lo <= x)
RECURSIVE ISqrt(_, _, _)
ISqrt(x, lo, hi) ==
    IF lo >= hi THEN lo
    ELSE LET mid == (lo + hi + 1) \div 2
         IN  IF mid * mid <= x THEN ISqrt(x, mid, hi) ELSE ISqrt(x, lo, mid - 1)

\* the square root of a rational a >= 0, rounded down to SqrtScale-ths: the
\* program's float64 square root rounds too, only much finer
SqrtScale == 100

RSqrt(a) ==
    IF IsNaN(a) THEN NaN
    ELSE LET x == (a[1] * SqrtScale * SqrtScale) \div a[2]
         IN  R(ISqrt(x, 0, IF x < 40000 THEN x ELSE 40000), SqrtScale)

\* pandas Series.mean(): NaN skipped, NaN when nothing is left
Mean(s) == IF Count(s) = 0 THEN NaN ELSE RDiv(Sum(s), Rat(Count(s)))

\* pandas Series.std(): sample standard deviation (ddof = 1) of the non-NaN
\* values, NaN when fewer than two are left
Std(s) ==
    IF Count(s) < 2 THEN NaN
    ELSE RSqrt(RDiv(SumSq(s, Mean(s)), Rat(Count(s) - 1)))

\* calculate_adu(sales_series, num_weeks)
calculate_adu(sales_series, num_weeks) ==
    IF num_weeks > 0 THEN RDiv(Sum(sales_series), Rat(num_weeks)) ELSE Rat(0)

\* the rows of df whose value of Week is <= week
RowsUpTo(df, week) == SelectSeq(df, LAMBDA row : row.Week <= week)

\* df[...]['Week'].nunique()
NUniqueWeeks(df) == Cardinality({df[i].Week : i \in 1..Len(df)})

\* a slip of lines 63-66: the oversized rule replaces the MOQ instead of
\* flooring it
adjusted_moq_replaced(moq, adjusted_adu, is_340) ==
    IF is_340 THEN RMul(Rat(4), adjusted_adu) ELSE moq

\* ddmrp_engine.py 63-66: adjusted_moq
adjusted_moq(moq, adjusted_adu, is_340) ==
    IF is_340 THEN RMax(moq, RMul(Rat(4), adjusted_adu)) ELSE moq

\* a slip of line 68: the green zone without its MOQ floor
calculate_ddmrp_fields_nofloor(df, moq, lead_time_weeks, daf, all_covs, reference_week, is_340, sku) ==
    LET df_hist == IF reference_week /= 0 THEN RowsUpTo(df, reference_week) ELSE df
        num_weeks == NUniqueWeeks(df_hist)
        weekly_adu == calculate_adu(QuantitySold(df_hist), num_weeks)
        weekly_std == Std(QuantitySold(df_hist))
        cov == IF RLt(Rat(0), weekly_adu) THEN RDiv(weekly_std, weekly_adu) ELSE Rat(0)
        ltf == classify_lead_time_factor(lead_time_weeks)
        vf == IF all_covs /= NoSeries
              THEN classify_variability_factor(cov, all_covs, sku) ELSE R(1, 2)
        adjusted_adu == RMul(weekly_adu, daf)
        yellow == RMul(adjusted_adu, lead_time_weeks)
        red_base == RMul(RMul(adjusted_adu, lead_time_weeks), ltf)
        red_safety == RMul(red_base, vf)
        red_zone == RAdd(red_base, red_safety)
    IN  [WeeklyADU |-> weekly_adu, AdjustedADU |-> adjusted_adu, ADU |-> adjusted_adu,
         CoV |-> cov, LeadTimeFactor |-> ltf, VariabilityFactor |-> vf, DAF |-> daf,
         YellowZone |-> yellow, GreenZone |-> red_base, RedBase |-> red_base,
         RedSafety |-> red_safety, RedZone |-> red_zone]

\* calculate_ddmrp_fields(df, moq, lead_time_weeks, daf, all_covs,
\* reference_week, is_340, sku): the columns it adds to df, each holding one
\* value in all rows.  all_covs = NoSeries stands for all_covs=None,
\* reference_week = 0 for reference_week=None, sku = 0 for sku=None.
calculate_ddmrp_fields(df, moq, lead_time_weeks, daf, all_covs, reference_week, is_340, sku) ==
    LET df_hist == IF reference_week /= 0 THEN RowsUpTo(df, reference_week) ELSE df
        num_weeks == NUniqueWeeks(df_hist)
        weekly_adu == calculate_adu(QuantitySold(df_hist), num_weeks)
        weekly_std == Std(QuantitySold(df_hist))
        cov == IF RLt(Rat(0), weekly_adu) THEN RDiv(weekly_std, weekly_adu) ELSE Rat(0)
        ltf == classify_lead_time_factor(lead_time_weeks)
        vf == IF all_covs /= NoSeries
              THEN classify_variability_factor(cov, all_covs, sku) ELSE R(1, 2)
        adjusted_adu == RMul(weekly_adu, daf)
        yellow == RMul(adjusted_adu, lead_time_weeks)
        red_base == RMul(RMul(adjusted_adu, lead_time_weeks), ltf)
        green == RMax(red_base, adjusted_moq(moq, adjusted_adu, is_340))
        red_safety == RMul(red_base, vf)
        red_zone == RAdd(red_base, red_safety)
    IN  [WeeklyADU |-> weekly_adu, AdjustedADU |-> adjusted_adu, ADU |-> adjusted_adu,
         CoV |-> cov, LeadTimeFactor |-> ltf, VariabilityFactor |-> vf, DAF |-> daf,
         YellowZone |-> yellow, GreenZone |-> green, RedBase |-> red_base,
         RedSafety |-> red_safety, RedZone |-> red_zone]

----------------------------------------------------------------------------
(* src/logic/netflow.py and src/app/old_main.py: net flow, the cumulative  *)
(* zone boundaries and the production decision                             *)

\* df["Open Qty"].sum()
SumOpenQty(df) == Sum([i \in 1..Len(df) |-> df[i].OpenQty])

\* slips of lines 28-29: the future orders compared with the threshold as
\* one aggregate; the threshold taken as adu whatever its sign
calculate_qualified_demand_aggregate(sales_orders_df, adu, lead_time_weeks, today) ==
    IF sales_orders_df = <<>> THEN Rat(0)
    ELSE
      LET spike_horizon == RAdd(Rat(today), RMul(lead_time_weeks, Rat(7)))
          past_due == SumOpenQty(SelectSeq(sales_orders_df,
                         LAMBDA o : o.DueDate /= 0 /\ o.DueDate < today))
          due_today == SumOpenQty(SelectSeq(sales_orders_df,
                          LAMBDA o : o.DueDate = today))
          future_orders == SelectSeq(sales_orders_df,
                              LAMBDA o : /\ o.DueDate /= 0
                                         /\ o.DueDate > today
                                         /\ RLe(Rat(o.DueDate), spike_horizon))
          spikes == IF RLt(Rat(0), adu) /\ RLt(adu, SumOpenQty(future_orders))
                    THEN SumOpenQty(future_orders) ELSE Rat(0)
      IN  RAdd(RAdd(past_due, due_today), spikes)

calculate_qualified_demand_signless(sales_orders_df, adu, lead_time_weeks, today) ==
    IF sales_orders_df = <<>> THEN Rat(0)
    ELSE
      LET spike_horizon == RAdd(Rat(today), RMul(lead_time_weeks, Rat(7)))
          past_due == SumOpenQty(SelectSeq(sales_orders_df,
                         LAMBDA o : o.DueDate /= 0 /\ o.DueDate < today))
          due_today == SumOpenQty(SelectSeq(sales_orders_df,
                          LAMBDA o : o.DueDate = today))
          future_orders == SelectSeq(sales_orders_df,
                              LAMBDA o : /\ o.DueDate /= 0
                                         /\ o.DueDate > today
                                         /\ RLe(Rat(o.DueDate), spike_horizon))
          spikes == SumOpenQty(SelectSeq(future_orders,
                       LAMBDA o : RLt(adu, o.OpenQty)))
      IN  RAdd(RAdd(past_due, due_today), spikes)

\* calculate_qualified_demand(sales_orders_df, adu, lead_time_weeks), with
\* the day pd.Timestamp.today() returns as fourth argument.  Due dates are
\* day numbers, 0 is NaT (an unparseable date), which compares false.
calculate_qualified_demand(sales_orders_df, adu, lead_time_weeks, today) ==
    IF sales_orders_df = <<>> THEN Rat(0)
    ELSE
      LET spike_horizon == RAdd(Rat(today), RMul(lead_time_weeks, Rat(7)))
          past_due == SumOpenQty(SelectSeq(sales_orders_df,
                         LAMBDA o : o.DueDate /= 0 /\ o.DueDate < today))
          due_today == SumOpenQty(SelectSeq(sales_orders_df,
                          LAMBDA o : o.DueDate = today))
          future_orders == SelectSeq(sales_orders_df,
                              LAMBDA o : /\ o.DueDate /= 0
                                         /\ o.DueDate > today
                                         /\ RLe(Rat(o.DueDate), spike_horizon))
          \* threshold = adu if adu > 0 else float('inf')
          spikes == SumOpenQty(SelectSeq(future_orders,
                       LAMBDA o : RLt(Rat(0), adu) /\ RLt(adu, o.OpenQty)))
      IN  RAdd(RAdd(past_due, due_today), spikes)

\* calculate_net_flow(on_hand, open_supply, qualified_demand)
calculate_net_flow(on_hand, open_supply, qualified_demand) ==
    RSub(RAdd(on_hand, open_supply), qualified_demand)

\* old_main.py 160-162: red_top, yellow_top, green_top of a row of fields
red_top(f) == f.RedZone

\* a slip of line 161: the yellow zone taken off instead of added
yellow_top_below(f) == RSub(red_top(f), f.YellowZone)

yellow_top(f) == RAdd(red_top(f), f.YellowZone)

green_top(f) == RAdd(yellow_top(f), f.GreenZone)

\* old_main.py 167: max(0, green_top - net_flow); Python's max keeps its
\* first argument unless the second is greater
raw_recommendation(net_flow, gtop) ==
    LET x == RSub(gtop, net_flow) IN IF RLt(Rat(0), x) THEN x ELSE Rat(0)

\* old_main.py 168: "rounding_value and rounding_value > 0": None and 0
\* are falsy and NaN > 0 is false
HasIncrement(rounding_value) ==
    rounding_value /= None /\ RLt(Rat(0), rounding_value)

\* slips of lines 169 and 171: the increment count rounded down; the plain
\* round() without the 0.4999
rounded_recommendation_floor(r, rounding_value) ==
    IF HasIncrement(rounding_value)
    THEN RMul(Rat(Floor(RDiv(r, rounding_value))), rounding_value)
    ELSE Rat(RoundHalfEven(RAdd(r, R(4999, 10000))))

rounded_recommendation_nearest(r, rounding_value) ==
    IF HasIncrement(rounding_value)
    THEN RMul(Rat(Ceil(RDiv(r, rounding_value))), rounding_value)
    ELSE Rat(RoundHalfEven(r))

\* a slip of line 171: int() alone, which truncates
rounded_recommendation_truncated(r, rounding_value) ==
    IF HasIncrement(rounding_value)
    THEN RMul(Rat(Ceil(RDiv(r, rounding_value))), rounding_value)
    ELSE Rat(Floor(r))

\* old_main.py 168-171: the recommendation after rounding, before the MOQ
\* test: math.ceil(r / rounding_value) * rounding_value, or
\* int(round(r + 0.4999))
rounded_recommendation(r, rounding_value) ==
    IF HasIncrement(rounding_value)
    THEN RMul(Rat(Ceil(RDiv(r, rounding_value))), rounding_value)
    ELSE Rat(RoundHalfEven(RAdd(r, R(4999, 10000))))

\* slips of lines 166 and 172-173: the trigger compared with the top of
\* green; a sub-MOQ recommendation raised to the MOQ
recommended_production_green(net_flow, ytop, gtop, moq, rounding_value) ==
    IF RLt(net_flow, gtop)
    THEN LET r == rounded_recommendation(raw_recommendation(net_flow, gtop), rounding_value)
         IN  IF RLt(r, moq) THEN Rat(0) ELSE r
    ELSE Rat(0)

recommended_production_floored(net_flow, ytop, gtop, moq, rounding_value) ==
    IF RLt(net_flow, ytop)
    THEN LET r == rounded_recommendation(raw_recommendation(net_flow, gtop), rounding_value)
         IN  IF RLt(r, moq) THEN moq ELSE r
    ELSE Rat(0)

\* a slip of lines 172-173: the MOQ test left out
recommended_production_unsuppressed(net_flow, ytop, gtop, moq, rounding_value) ==
    IF RLt(net_flow, ytop)
    THEN rounded_recommendation(raw_recommendation(net_flow, gtop), rounding_value)
    ELSE Rat(0)

\* old_main.py 166-175: recommended_production
recommended_production(net_flow, ytop, gtop, moq, rounding_value) ==
    IF RLt(net_flow, ytop)
    THEN LET r == rounded_recommendation(raw_recommendation(net_flow, gtop), rounding_value)
         IN  IF RLt(r, moq) THEN Rat(0) ELSE r
    ELSE Rat(0)

----------------------------------------------------------------------------
(* State                                                                   *)

VARIABLES
    vf_pop,     \* classifier harness: the population all_covs of the run
    vf_calls,   \* the calls of classify_variability_factor made against it
    ltf_call,   \* the last call of classify_lead_time_factor
    zone_in,    \* zone harness: the arguments of calculate_ddmrp_fields
    zone_out,   \* the fields it returned and the boundaries built on them
    dec_in,     \* decision harness: the inputs of old_main.py 157-175
    dec_out,    \* net flow, boundaries and recommended production
    qd_in,      \* demand harness: the arguments of calculate_qualified_demand
    qd_out,     \* what it returned
    inputs,     \* the cleaned frames load_and_clean_data returns
    clock,      \* the day pd.Timestamp.today() last returned
    pc,         \* where the process is: "idle", "loop" (in main), "crashed"
    runs,       \* the number of calls of main() so far
    unique_skus,    \* main's unique_skus
    idx,            \* position of the loop of line 64 in unique_skus
    all_covs_data,  \* main's all_covs_data
    all_results,    \* the module-level list all_results
    summary_csv,    \* data/outputs/ddmrp_weekly_production_plan.csv
    outcome,        \* how the last iteration of the loop ended
    plan_call       \* the last call of calculate_ddmrp_plan and its result

classifyVars == <<vf_pop, vf_calls, ltf_call>>

zoneVars == <<zone_in, zone_out>>

decVars == <<dec_in, dec_out>>

demandVars == <<qd_in, qd_out>>

lookupVars == <<plan_call>>

runVars == <<inputs, clock, pc, runs, unique_skus, idx, all_covs_data, all_results,
             summary_csv, outcome>>

vars == <<classifyVars, zoneVars, decVars, demandVars, runVars, lookupVars>>

Pending == [pending |-> TRUE]

IsPending(x) == "pending" \in DOMAIN x

ClassifyIdle == vf_pop = <<>> /\ vf_calls = {} /\ ltf_call = Pending

ZonesIdle == zone_in = Pending /\ zone_out = Pending

DecideIdle == dec_in = Pending /\ dec_out = Pending

DemandIdle == qd_in = Pending /\ qd_out = Pending

LookupIdle == plan_call = Pending

NoFile == [exists |-> FALSE, rows |-> <<>>]

RunIdle ==
    /\ inputs = Pending /\ clock = 0 /\ pc = "off" /\ runs = 0
    /\ unique_skus = <<>> /\ idx = 0 /\ all_covs_data = <<>>
    /\ all_results = <<>> /\ summary_csv = NoFile /\ outcome = Pending

\* the sequences over S of length lo..hi
SeqsOf(S, lo, hi) == UNION {[1..k -> S] : k \in lo..hi}

----------------------------------------------------------------------------
(* The classifiers applied to bounded inputs                               *)

MaxPop == 2

MaxCalls == 2

CovVals == {Rat(0), R(1, 2), Rat(1), Rat(2), NaN}

LeadTimes == {R(1, 2), Rat(2), R(5, 2), Rat(4), R(9, 2), Rat(8)}

\* the identifiers of two ordinary SKUs
OTHER_SKU == EXCEPTION_SKU + 1

ClassifyInit ==
    /\ vf_pop \in SeqsOf(CovVals, 0, MaxPop)
    /\ vf_calls = {}
    /\ ltf_call = Pending
    /\ ZonesIdle /\ DecideIdle /\ DemandIdle /\ RunIdle /\ LookupIdle

\* a call classify_variability_factor(cov, vf_pop, sku)
ClassifyVariability ==
    /\ Cardinality(vf_calls) < MaxCalls
    /\ \E cov \in CovVals, sku \in {OTHER_SKU, EXCEPTION_SKU} :
          vf_calls' = vf_calls \cup
              {[cov |-> cov, sku |-> sku,
                ret |-> classify_variability_factor(cov, vf_pop, sku)]}
    /\ UNCHANGED <<vf_pop, ltf_call, zoneVars, decVars, demandVars, runVars, lookupVars>>

\* a call classify_lead_time_factor(lead_time_weeks)
ClassifyLeadTime ==
    /\ \E lt \in LeadTimes :
          ltf_call' = [lead_time_weeks |-> lt, ret |-> classify_lead_time_factor(lt)]
    /\ UNCHANGED <<vf_pop, vf_calls, zoneVars, decVars, demandVars, runVars, lookupVars>>

ClassifyNext == ClassifyVariability \/ ClassifyLeadTime

SpecClassify == ClassifyInit /\ [][ClassifyNext]_vars

----------------------------------------------------------------------------
(* calculate_ddmrp_fields and the boundaries applied to bounded inputs     *)

MaxHist == 2

QtyVals == {Rat(0), Rat(4), Rat(10), NaN}

\* the frame of one SKU with the quantities q sold in weeks 1..Len(q)
FrameOf(q) ==
    [i \in 1..Len(q) |->
        [Week |-> i, QuantitySold |-> q[i], Inventory |-> Rat(0),
         ProductionOrders |-> Rat(0), MRPType |-> "MTS"]]

ZoneInputs ==
    [df : {FrameOf(q) : q \in SeqsOf(QtyVals, 1, MaxHist)},
     moq : {Rat(0), Rat(5), Rat(50)},
     lead_time_weeks : {R(1, 2), Rat(2), Rat(3), Rat(5)},
     daf : {Rat(0), Rat(1), R(5, 2)},
     all_covs : {NoSeries, <<Rat(0), Rat(1)>>, <<R(1, 2)>>},
     reference_week : {0, 1},
     is_340 : BOOLEAN,
     sku : {0, EXCEPTION_SKU}]

ZonesInit ==
    /\ zone_in \in ZoneInputs
    /\ zone_out = Pending
    /\ ClassifyIdle /\ DecideIdle /\ DemandIdle /\ RunIdle /\ LookupIdle

\* calculate_ddmrp_fields on zone_in, then old_main.py 160-162
SizeZones ==
    /\ IsPending(zone_out)
    /\ LET f == calculate_ddmrp_fields(zone_in.df, zone_in.moq, zone_in.lead_time_weeks,
                    zone_in.daf, zone_in.all_covs, zone_in.reference_week,
                    zone_in.is_340, zone_in.sku)
       IN  zone_out' = [fields |-> f, red_top |-> red_top(f),
                        yellow_top |-> yellow_top(f), green_top |-> green_top(f)]
    /\ UNCHANGED <<classifyVars, zone_in, decVars, demandVars, runVars, lookupVars>>

ZonesNext == SizeZones

SpecZones == ZonesInit /\ [][ZonesNext]_vars

----------------------------------------------------------------------------
(* calculate_qualified_demand applied to bounded sets of open sales orders *)

MaxOrders == 2

\* open sales orders of one SKU: due dates are day numbers, today being day
\* 10: unparseable (0), yesterday, today, in 3 days, in 7 days, in 8 days
SalesOrders ==
    [DueDate : {0, 9, 10, 13, 17, 18}, OpenQty : {Rat(5), Rat(6), Rat(20)}]

DemandInputs ==
    [sales_orders_df : SeqsOf(SalesOrders, 0, MaxOrders),
     adu : {Rat(-1), Rat(0), Rat(10)},
     lead_time_weeks : {R(1, 2), Rat(1), Rat(2)},
     today : {10}]

DemandInit ==
    /\ qd_in \in DemandInputs
    /\ qd_out = Pending
    /\ ClassifyIdle /\ ZonesIdle /\ DecideIdle /\ RunIdle /\ LookupIdle

\* a call calculate_qualified_demand(sales_orders_df, adu, lead_time_weeks)
\* on the day qd_in.today
QualifyDemand ==
    /\ IsPending(qd_out)
    /\ qd_out' = [ret |-> calculate_qualified_demand(qd_in.sales_orders_df, qd_in.adu,
                                                     qd_in.lead_time_weeks, qd_in.today)]
    /\ UNCHANGED <<classifyVars, zoneVars, decVars, qd_in, runVars, lookupVars>>

DemandNext == QualifyDemand

SpecDemand == DemandInit /\ [][DemandNext]_vars

----------------------------------------------------------------------------
(* The production decision (old_main.py 157-175) applied to bounded inputs *)

\* RedZone, YellowZone, GreenZone of the target-week row: a degenerate
\* buffer, the buffer of the documented example, and a small one
ZoneRows ==
    {[RedZone |-> Rat(0), YellowZone |-> Rat(0), GreenZone |-> Rat(0)],
     [RedZone |-> R(45, 2), YellowZone |-> Rat(20), GreenZone |-> Rat(15)],
     [RedZone |-> Rat(2), YellowZone |-> Rat(4), GreenZone |-> Rat(6)]}

OnHands ==
    {Rat(0), R(1, 2), R(4, 5), R(9999, 10000), R(19999, 10000), R(39999, 20000),
     Rat(3), R(7, 2), R(19, 5), Rat(30), Rat(45), Rat(60)}

DecisionInputs ==
    [on_hand : OnHands,
     on_order : {Rat(0), Rat(5)},
     qualified_demand : {Rat(0), Rat(4), Rat(100)},
     row : ZoneRows,
     moq : {Rat(0), Rat(5), Rat(13), Rat(40)},
     rounding_value : {None, Rat(0), Rat(5), R(3, 2)}]

DecideInit ==
    /\ dec_in \in DecisionInputs
    /\ dec_out = Pending
    /\ ClassifyIdle /\ ZonesIdle /\ DemandIdle /\ RunIdle /\ LookupIdle

\* old_main.py 157-175 on dec_in
Decide ==
    /\ IsPending(dec_out)
    /\ LET net_flow == calculate_net_flow(dec_in.on_hand, dec_in.on_order,
                                          dec_in.qualified_demand)
           ytop == yellow_top(dec_in.row)
           gtop == green_top(dec_in.row)
       IN  dec_out' =
             [net_flow |-> net_flow, red_top |-> red_top(dec_in.row),
              yellow_top |-> ytop, green_top |-> gtop,
              raw |-> IF RLt(net_flow, ytop)
                      THEN raw_recommendation(net_flow, gtop) ELSE None,
              rounded |-> IF RLt(net_flow, ytop)
                          THEN rounded_recommendation(
                                   raw_recommendation(net_flow, gtop),
                                   dec_in.rounding_value)
                          ELSE None,
              recommended_production |->
                 recommended_production(net_flow, ytop, gtop, dec_in.moq,
                                        dec_in.rounding_value)]
    /\ UNCHANGED <<classifyVars, zoneVars, dec_in, demandVars, runVars, lookupVars>>

DecideNext == Decide

SpecDecide == DecideInit /\ [][DecideNext]_vars

----------------------------------------------------------------------------
(* src/app/old_main.py: main(), called any number of times in one process  *)
(* (src/app/endpoints/upload.py imports and calls it per analysis)         *)
(*                                                                         *)
(* inputs.skus is the order in which the SKUs first appear in df_sales;    *)
(* inputs.sku_data[sku] holds the SKU's weekly rows as the outer merge of   *)
(* lines 72-74 leaves them (NaN where a frame has no value), its rows of   *)
(* df_moq (none or one) and its rows of df_sales_orders.                   *)

NumWeeks == 3

MaxRuns == 2

MaxDay == 2

THIRD_SKU == EXCEPTION_SKU + 2

\* lines 72-74, 88-89, 101-102, 107: the merged frame of a SKU, rows by week,
\* Inventory and ProductionOrders with NaN replaced by 0
master_df(sku) ==
    LET rows == inputs.sku_data[sku].rows
        fillna0(x) == IF IsNaN(x) THEN Rat(0) ELSE x
    IN  [i \in 1..Len(rows) |->
            [rows[i] EXCEPT !.Inventory = fillna0(@), !.ProductionOrders = fillna0(@)]]

\* line 77: master_df['MRP Type'].nunique() == 1 and the first row's type
\* is not "MTS"; nunique() does not count NaN ("nan")
NotMTS(df) ==
    /\ Cardinality({df[i].MRPType : i \in 1..Len(df)} \ {"nan"}) = 1
    /\ df[1].MRPType /= "MTS"

\* lines 60-61: std / mean of Quantity Sold over all rows of df_sales of the
\* SKU; 0 / 0 is NaN
SalesCov(sku) ==
    LET q == QuantitySold(inputs.sku_data[sku].rows)
    IN  IF Count(q) = 0 \/ Mean(q) = Rat(0) THEN NaN ELSE RDiv(Std(q), Mean(q))

\* lines 92-95: moq, lt_weeks, is_340, rounding_value of a SKU
MasterOf(sku) ==
    LET sku_moq == inputs.sku_data[sku].master
    IN  IF sku_moq = <<>>
        THEN [moq |-> Rat(0), lt_weeks |-> Rat(2), is_340 |-> FALSE,
              rounding_value |-> None]
        ELSE [moq |-> sku_moq[1].MOQ, lt_weeks |-> sku_moq[1].LeadTime,
              is_340 |-> sku_moq[1].Is_340,
              rounding_value |-> sku_moq[1].RoundingValue]

\* a slip of line 111: the weeks with an inventory on record, 0 or not
InventoryWeeks_recorded(df) ==
    {df[i].Week : i \in {j \in 1..Len(df) : RLe(Rat(0), df[j].Inventory)}}

\* lines 111 and 118: the weeks with Inventory > 0, and the last of them
InventoryWeeks(df) == {df[i].Week : i \in {j \in 1..Len(df) : RLt(Rat(0), df[j].Inventory)}}

MaxWeek(W) == CHOOSE w \in W : \A v \in W : v <= w

\* line 117: sorted(master_df["Week"].dropna().unique())
RECURSIVE SortedWeeks(_)
SortedWeeks(W) ==
    IF W = {} THEN <<>>
    ELSE LET m == MaxWeek(W) IN SortedWeeks(W \ {m}) \o <<m>>

\* list.index(x): the 0-based position of x in the sorted list s
IndexOf(s, x) == (CHOOSE i \in 1..Len(s) : s[i] = x) - 1

\* the row of df for the given week (line 147-148, .values[0])
RowOf(df, week) == df[CHOOSE i \in 1..Len(df) : df[i].Week = week]

\* a slip of line 155: the production orders of every week added up
FutureOrders_all(df, week) ==
    Sum([i \in 1..Len(df) |-> df[i].ProductionOrders])

\* line 155: the sum of ProductionOrders over the rows from week on
FutureOrders(df, week) ==
    LET rows == SelectSeq(df, LAMBDA row : row.Week >= week)
    IN  Sum([i \in 1..Len(rows) |-> rows[i].ProductionOrders])

\* a slip of lines 60-61 and 124: one pass, each SKU classified against the
\* covs of the SKUs reached so far
FieldsOf_onepass(sku, df, current_week) ==
    calculate_ddmrp_fields(df, MasterOf(sku).moq, MasterOf(sku).lt_weeks, Rat(1),
                           SubSeq(all_covs_data, 1, idx), current_week,
                           MasterOf(sku).is_340, 0)

\* lines 120-127: the call of calculate_ddmrp_fields main makes
FieldsOf(sku, df, current_week) ==
    calculate_ddmrp_fields(df, MasterOf(sku).moq, MasterOf(sku).lt_weeks, Rat(1),
                           all_covs_data, current_week, MasterOf(sku).is_340, 0)

\* lines 146-199: output_data of a SKU with reference week current_week and
\* target week target_week, f being the columns calculate_ddmrp_fields added
\* (the same in the row of every week) and today the day the clock shows
OutputData(sku, df, f, current_week, target_week, today) ==
    LET m == MasterOf(sku)
        qualified_demand == calculate_qualified_demand(
                                inputs.sku_data[sku].sales_orders, f.ADU, m.lt_weeks, today)
        on_hand == RowOf(df, current_week).Inventory
        on_order == FutureOrders(df, current_week)
        net_flow == calculate_net_flow(on_hand, on_order, qualified_demand)
    IN  [SKU |-> sku, CurrentWeek |-> current_week, TargetWeek |-> target_week,
         WeeklyADU |-> f.WeeklyADU, CoV |-> f.CoV, RedBase |-> f.RedBase,
         RedSafety |-> f.RedSafety, RedZone |-> f.RedZone,
         YellowZone |-> f.YellowZone, GreenZone |-> f.GreenZone,
         TopOfRed |-> red_top(f), TopOfYellow |-> yellow_top(f),
         TopOfGreen |-> green_top(f), NetFlow |-> net_flow,
         RecommendedProduction |->
             recommended_production(net_flow, yellow_top(f), green_top(f), m.moq,
                                    m.rounding_value),
         Inventory |-> on_hand, OnOrder |-> on_order,
         QualifiedDemand |-> qualified_demand]

\* lines 19-61: main() starts: the frames are loaded, the population of
\* covs is computed, the loop begins
StartRun ==
    /\ pc \in {"idle", "crashed"}
    /\ runs < MaxRuns
    /\ runs' = runs + 1
    /\ unique_skus' = inputs.skus
    /\ all_covs_data' = [i \in 1..Len(inputs.skus) |-> SalesCov(inputs.skus[i])]
    /\ idx' = 1
    /\ pc' = "loop"
    /\ outcome' = [kind |-> "start"]
    /\ UNCHANGED <<inputs, clock, all_results, summary_csv>>
    /\ UNCHANGED <<classifyVars, zoneVars, decVars, demandVars, lookupVars>>

\* one iteration of the loop of line 64, lines 65-215
ProcessSku ==
    /\ pc = "loop"
    /\ idx <= Len(unique_skus)
    /\ LET sku == unique_skus[idx]
           df == master_df(sku)
           lt_weeks == MasterOf(sku).lt_weeks
           inventory_weeks == InventoryWeeks(df)
           sorted_weeks == SortedWeeks({df[i].Week : i \in 1..Len(df)})
           current_week == MaxWeek(inventory_weeks)
       IN  IF NotMTS(df)
           THEN \* line 78
                /\ outcome' = [kind |-> "not_mts", sku |-> sku]
                /\ idx' = idx + 1
                /\ UNCHANGED <<pc, clock, all_results>>
           ELSE IF inventory_weeks = {}
           THEN \* lines 112-114
                /\ outcome' = [kind |-> "no_inventory", sku |-> sku]
                /\ idx' = idx + 1
                /\ UNCHANGED <<pc, clock, all_results>>
           ELSE IF lt_weeks[2] /= 1
           THEN \* line 136: a list index that is no integer: TypeError, which
                \* the handlers of lines 138 and 142 do not catch
                /\ outcome' = [kind |-> "error", sku |-> sku]
                /\ pc' = "crashed"
                /\ UNCHANGED <<idx, clock, all_results>>
           ELSE IF IndexOf(sorted_weeks, current_week) + lt_weeks[1] >= Len(sorted_weeks)
           THEN \* lines 138-140: IndexError
                /\ outcome' = [kind |-> "no_target_week", sku |-> sku]
                /\ idx' = idx + 1
                /\ UNCHANGED <<pc, clock, all_results>>
           ELSE \* lines 146-215; today is read when there are sales orders
                \E today \in clock..MaxDay,
                   f \in {FieldsOf(sku, df, current_week)},
                   target_week \in
                       {sorted_weeks[IndexOf(sorted_weeks, current_week) + lt_weeks[1] + 1]} :
                  \E output_data \in
                       {OutputData(sku, df, f, current_week, target_week, today)} :
                    /\ inputs.sku_data[sku].sales_orders = <<>> => today = clock
                    /\ clock' = today
                    /\ all_results' = Append(all_results, output_data)
                    /\ outcome' = [kind |-> "planned", sku |-> sku,
                                   output_data |-> output_data, fields |-> f]
                    /\ idx' = idx + 1
                    /\ UNCHANGED pc
    /\ UNCHANGED <<inputs, runs, unique_skus, all_covs_data, summary_csv>>
    /\ UNCHANGED <<classifyVars, zoneVars, decVars, demandVars, lookupVars>>

\* lines 217-220: the loop is over, the summary file is written
FinishRun ==
    /\ pc = "loop"
    /\ idx > Len(unique_skus)
    /\ summary_csv' = [exists |-> TRUE, rows |-> all_results]
    /\ pc' = "idle"
    /\ outcome' = [kind |-> "finished"]
    /\ UNCHANGED <<inputs, clock, runs, unique_skus, idx, all_covs_data, all_results>>
    /\ UNCHANGED <<classifyVars, zoneVars, decVars, demandVars, lookupVars>>

\* clean_inputs.py 34, 47, 59, 78: the MRP type of an MRP Type Indicator;
\* Series.map leaves NaN ("nan") for an indicator the dict does not hold
mrp_type(indicator) ==
    CASE indicator = "X0" -> "MTS"
      [] indicator = "X7" -> "MTO"
      [] OTHER -> "nan"

\* the weekly rows of a SKU: weeks 1..NumWeeks, the row of week w made from
\* records with MRP Type Indicator mrp[w]
WeeklyRows(sold, inv, orders, mrp) ==
    [w \in 1..NumWeeks |->
        [Week |-> w, QuantitySold |-> sold[w], Inventory |-> inv[w],
         ProductionOrders |-> orders[w], MRPTypeIndicator |-> mrp[w],
         MRPType |-> mrp_type(mrp[w])]]

\* one indicator in every week
Uniformly(indicator) == [w \in 1..NumWeeks |-> indicator]

\* inventory 30 in the weeks up to k, 0 in the week after, none recorded
\* in the weeks after that
InventoryUpTo(k) ==
    [w \in 1..NumWeeks |-> IF w <= k THEN Rat(30) ELSE IF w = k + 1 THEN Rat(0) ELSE NaN]

\* the rows of df_moq of a SKU: none, or one
MasterRows ==
    {<<>>} \cup
    {<<[MOQ |-> q[1], RoundingValue |-> q[2], LeadTime |-> lt, DAF |-> daf,
        Is_340 |-> FALSE]>> :
        q \in {<<Rat(0), None>>, <<Rat(20), Rat(5)>>},
        lt \in {Rat(1), Rat(2)}, daf \in {Rat(1), Rat(2)}}
    \cup
    {<<[MOQ |-> Rat(0), RoundingValue |-> None, LeadTime |-> R(3, 2), DAF |-> Rat(1),
        Is_340 |-> FALSE]>>}

\* quantities sold: 10 a week up to week j and 0 after, or the reverse
SoldProfiles ==
    {[w \in 1..NumWeeks |-> IF w <= j THEN Rat(10) ELSE Rat(0)] : j \in 0..NumWeeks}
    \cup
    {[w \in 1..NumWeeks |-> IF w <= j THEN Rat(0) ELSE Rat(10)] : j \in 0..NumWeeks}

\* the open sales orders of a SKU: none, or 50 due on day 1 and 5 on day 2
SalesOrderSets ==
    {<<>>, <<[DueDate |-> 1, OpenQty |-> Rat(50)], [DueDate |-> 2, OpenQty |-> Rat(5)]>>}

\* the data of the SKU the inputs vary
VariedData ==
    [rows : {WeeklyRows(sold, InventoryUpTo(k), orders, Uniformly("X0")) :
                 sold \in SoldProfiles,
                 k \in 0..NumWeeks,
                 orders \in {[w \in 1..NumWeeks |-> NaN], [w \in 1..NumWeeks |-> Rat(5)]}},
     master : MasterRows,
     sales_orders : SalesOrderSets]

\* the MRP Type Indicators of the records of a SKU: make-to-stock,
\* make-to-order or another type throughout, or make-to-order in the first
\* week and make-to-stock after
IndicatorProfiles ==
    {Uniformly("X0"), Uniformly("X7"), Uniformly("X5"),
     [w \in 1..NumWeeks |-> IF w = 1 THEN "X7" ELSE "X0"]}

\* the data of a second SKU: with inventory and any of the indicator
\* profiles, or make-to-stock without inventory
SecondData ==
    {[rows |-> WeeklyRows([w \in 1..NumWeeks |-> Rat(4)], InventoryUpTo(1),
                          [w \in 1..NumWeeks |-> NaN], mrp),
      master |-> <<>>, sales_orders |-> <<>>] : mrp \in IndicatorProfiles}
    \cup
    {[rows |-> WeeklyRows([w \in 1..NumWeeks |-> IF w = 1 THEN Rat(2) ELSE Rat(6)],
                          InventoryUpTo(0), [w \in 1..NumWeeks |-> NaN], Uniformly("X0")),
      master |-> <<>>, sales_orders |-> <<>>]}

RunInputs ==
    {[skus |-> <<a, THIRD_SKU>>,
      sku_data |-> [s \in {a, THIRD_SKU} |-> IF s = a THEN d ELSE e]] :
        a \in {EXCEPTION_SKU, OTHER_SKU}, d \in VariedData, e \in SecondData}

Init ==
    /\ inputs \in RunInputs
    /\ clock = 1
    /\ pc = "idle"
    /\ runs = 0
    /\ unique_skus = <<>>
    /\ idx = 0
    /\ all_covs_data = <<>>
    /\ all_results = <<>>
    /\ summary_csv = NoFile
    /\ outcome = Pending
    /\ ClassifyIdle /\ ZonesIdle /\ DecideIdle /\ DemandIdle /\ LookupIdle

Next == StartRun \/ ProcessSku \/ FinishRun

Spec == Init /\ [][Next]_vars

----------------------------------------------------------------------------
(* src/logic/ddmrp_engine.py: calculate_ddmrp_plan, which the endpoint     *)
(* get_sku_data (src/app/endpoints/ddmrp.py) calls with the sku_id of the   *)
(* request, applied to bounded summary files                               *)

\* str(n) of a natural number: its decimal digits
RECURSIVE Digits(_)
Digits(n) == IF n < 10 THEN <<n>> ELSE Append(Digits(n \div 10), n % 10)

\* Series.str.contains(pat): pat occurs somewhere in the string s
Contains(s, pat) ==
    \E k \in 0..(Len(s) - Len(pat)) : SubSeq(s, k + 1, k + Len(pat)) = pat

\* calculate_ddmrp_plan(sku_id) on the summary file: an error, or the first
\* row of the file whose SKU matches sku_id, exactly or else as a substring
calculate_ddmrp_plan(file, sku_id) ==
    IF ~file.exists THEN [error |-> "Output plan file not found."]
    ELSE IF file.rows = <<>> THEN [error |-> "Error processing SKU"]
    ELSE
      LET df == file.rows
          exact == SelectSeq(df, LAMBDA row : Digits(row.SKU) = Digits(sku_id))
          filtered == IF exact /= <<>> THEN exact
                      ELSE SelectSeq(df, LAMBDA row : Contains(Digits(row.SKU), Digits(sku_id)))
      IN  IF filtered = <<>> THEN [error |-> "No production plan found for SKU"]
          ELSE [row |-> filtered[1]]

MaxRows == 2

\* records of a summary file
PlanRows ==
    [SKU : {EXCEPTION_SKU, OTHER_SKU, THIRD_SKU}, RecommendedProduction : {Rat(0), Rat(20)}]

\* the identifiers asked for: those of two SKUs, and two that are no SKU's
\* identifier
RequestedIds == {EXCEPTION_SKU, THIRD_SKU, EXCEPTION_SKU \div 10, EXCEPTION_SKU + 7}

LookupInit ==
    /\ summary_csv \in {NoFile} \cup
           {[exists |-> TRUE, rows |-> rows] : rows \in SeqsOf(PlanRows, 0, MaxRows)}
    /\ plan_call = Pending
    /\ inputs = Pending /\ clock = 0 /\ pc = "off" /\ runs = 0
    /\ unique_skus = <<>> /\ idx = 0 /\ all_covs_data = <<>>
    /\ all_results = <<>> /\ outcome = Pending
    /\ ClassifyIdle /\ ZonesIdle /\ DecideIdle /\ DemandIdle

\* a request GET /sku/{sku_id}: calculate_ddmrp_plan(sku_id)
LookupPlan ==
    /\ \E sku_id \in RequestedIds :
          plan_call' = [sku_id |-> sku_id,
                        ret |-> calculate_ddmrp_plan(summary_csv, sku_id)]
    /\ UNCHANGED <<classifyVars, zoneVars, decVars, demandVars, runVars>>

LookupNext == LookupPlan

SpecLookup == LookupInit /\ [][LookupNext]_vars

----------------------------------------------------------------------------
(* Properties                                                              *)

\* the decision ran and took the branch net_flow < top_of_yellow
DecidedBelowYellow == ~IsPending(dec_out) /\ RLt(dec_out.net_flow, dec_out.yellow_top)

\* net_flow and top_of_yellow as the claims define them, from the inputs
NetFlowOfInputs ==
    RSub(RAdd(dec_in.on_hand, dec_in.on_order), dec_in.qualified_demand)

TopOfYellowOfInputs == RAdd(dec_in.row.RedZone, dec_in.row.YellowZone)

TopOfGreenOfInputs == RAdd(TopOfYellowOfInputs, dec_in.row.GreenZone)

\* the fractional part of a rational number
Frac(a) == RSub(a, Rat(Floor(a)))

\* C1: whenever net_flow >= top_of_yellow (= red_zone + yellow), whatever
\* on_hand, on_order, qualified_demand, zones, MOQ and increment are, the
\* recommended production is exactly 0.
C1_ZeroAtOrAboveTopOfYellow ==
    (~IsPending(dec_out) /\ RLe(TopOfYellowOfInputs, NetFlowOfInputs))
        => dec_out.recommended_production = Rat(0)

\* C1 witness: net flow between top of yellow and top of green with no MOQ,
\* so only the trigger test keeps the recommendation at 0
C1_Witness ==
    /\ ~IsPending(dec_out)
    /\ RLe(TopOfYellowOfInputs, NetFlowOfInputs)
    /\ RLt(NetFlowOfInputs, TopOfGreenOfInputs)
    /\ dec_in.moq = Rat(0)
    /\ dec_out.recommended_production = Rat(0)

\* C2: below top of yellow, a rounded recommendation strictly below MOQ
\* gives recommended production 0 (never MOQ), also when the raw
\* recommendation is > 0; a rounded recommendation >= MOQ is kept unchanged.
C2_SubMoqSuppressed ==
    DecidedBelowYellow =>
        /\ RLt(dec_out.rounded, dec_in.moq) => dec_out.recommended_production = Rat(0)
        /\ RLe(dec_in.moq, dec_out.rounded) =>
               dec_out.recommended_production = dec_out.rounded

\* C2 witness: a positive raw recommendation suppressed by the MOQ
C2_Witness ==
    /\ DecidedBelowYellow
    /\ RLt(Rat(0), dec_out.raw)
    /\ RLt(Rat(0), dec_out.rounded)
    /\ RLt(dec_out.rounded, dec_in.moq)
    /\ dec_out.recommended_production = Rat(0)

C4_CeilToIncrement ==
    (DecidedBelowYellow /\ HasIncrement(dec_in.rounding_value)) =>
        LET inc == dec_in.rounding_value
            k == RDiv(dec_out.rounded, inc)
        IN  /\ k[2] = 1
            /\ RLe(dec_out.raw, dec_out.rounded)
            /\ RLt(RSub(dec_out.rounded, inc), dec_out.raw)

\* C4 witness: increment 5 and raw 12 give 15
C4_Witness ==
    /\ DecidedBelowYellow
    /\ dec_in.rounding_value = Rat(5)
    /\ dec_out.raw = Rat(12)
    /\ dec_out.rounded = Rat(15)

\* C5: for weekly_adu > 0 (DAF >= 0, lead time > 0, MOQ >= 0) the zones are
\* >= 0 and top_of_red <= top_of_yellow <= top_of_green.
C5_ZonesNonNegativeAndOrdered ==
    (/\ ~IsPending(zone_out)
     /\ RLt(Rat(0), zone_out.fields.WeeklyADU)
     /\ RLe(Rat(0), zone_in.daf)
     /\ RLt(Rat(0), zone_in.lead_time_weeks)
     /\ RLe(Rat(0), zone_in.moq))
    => /\ RLe(Rat(0), zone_out.fields.RedZone)
       /\ RLe(Rat(0), zone_out.fields.YellowZone)
       /\ RLe(Rat(0), zone_out.fields.GreenZone)
       /\ RLe(zone_out.red_top, zone_out.yellow_top)
       /\ RLe(zone_out.yellow_top, zone_out.green_top)

\* C5 witness: positive demand, oversized variant, exception factor: three
\* strictly increasing boundaries
C5_Witness ==
    /\ ~IsPending(zone_out)
    /\ RLt(Rat(0), zone_out.fields.WeeklyADU)
    /\ zone_in.is_340
    /\ RLt(Rat(0), zone_out.red_top)
    /\ RLt(zone_out.red_top, zone_out.yellow_top)
    /\ RLt(zone_out.yellow_top, zone_out.green_top)

\* the mathematical maximum of two rational numbers
MaxOf(a, b) == IF RLe(a, b) THEN b ELSE a

\* C6: the zones are sized as adjusted_adu = weekly_adu * DAF,
\* yellow = adjusted_adu * lt, red_base = adjusted_adu * lt * ltf,
\* red_safety = red_base * vf, red_zone = red_base + red_safety,
\* green = max(red_base, effective_moq) with effective_moq =
\* max(MOQ, 4 * adjusted_adu) for an oversized SKU and MOQ otherwise, and
\* the boundaries are red_zone, + yellow, + green; adu = 10, lt = 2,
\* ltf = 0.75, vf = 0.5, DAF = 1, MOQ = 0 gives 22.5 / 42.5 / 57.5.
C6_ZoneFormulas ==
    ~IsPending(zone_out) =>
        LET f == zone_out.fields
            lt == zone_in.lead_time_weeks
            adj == RMul(f.WeeklyADU, zone_in.daf)
            base == RMul(RMul(adj, lt), f.LeadTimeFactor)
            eff == IF zone_in.is_340 THEN MaxOf(zone_in.moq, RMul(Rat(4), adj))
                   ELSE zone_in.moq
        IN  /\ f.YellowZone = RMul(adj, lt)
            /\ f.RedBase = base
            /\ f.RedSafety = RMul(base, f.VariabilityFactor)
            /\ f.RedZone = RAdd(f.RedBase, f.RedSafety)
            /\ f.GreenZone = MaxOf(base, eff)
            /\ zone_out.red_top = f.RedZone
            /\ zone_out.yellow_top = RAdd(f.RedZone, f.YellowZone)
            /\ zone_out.green_top = RAdd(RAdd(f.RedZone, f.YellowZone), f.GreenZone)
            /\ (/\ f.WeeklyADU = Rat(10) /\ lt = Rat(2) /\ f.LeadTimeFactor = R(3, 4)
                /\ f.VariabilityFactor = R(1, 2) /\ zone_in.daf = Rat(1)
                /\ zone_in.moq = Rat(0) /\ ~zone_in.is_340)
               => /\ zone_out.red_top = R(45, 2)
                  /\ zone_out.yellow_top = R(85, 2)
                  /\ zone_out.green_top = R(115, 2)

\* C6 witness: the documented example, and an oversized SKU whose green zone
\* is 4 * adjusted_adu
C6_Witness ==
    /\ ~IsPending(zone_out)
    /\ \/ /\ zone_out.fields.WeeklyADU = Rat(10) /\ zone_in.lead_time_weeks = Rat(2)
          /\ zone_out.fields.VariabilityFactor = R(1, 2) /\ zone_in.daf = Rat(1)
          /\ zone_in.moq = Rat(0) /\ ~zone_in.is_340
          /\ zone_out.green_top = R(115, 2)
       \/ /\ zone_in.is_340 /\ zone_in.moq = Rat(5)
          /\ zone_out.fields.WeeklyADU = Rat(10) /\ zone_in.daf = Rat(1)
          /\ zone_out.fields.GreenZone = Rat(40)

\* the calls of classify_variability_factor for SKUs other than the exception
OrdinaryCalls == {c \in vf_calls : c.sku /= EXCEPTION_SKU}

\* C9: against a fixed population, for a non-exception SKU: cov <= q33 gives
\* 0.3, q33 < cov <= q66 gives 0.5, cov > q66 gives 0.8, and so
\* cov1 <= cov2 implies factor(cov1) <= factor(cov2).
C9_VariabilityMonotonic ==
    LET q33 == quantile(vf_pop, 33)
        q66 == quantile(vf_pop, 66)
    IN  /\ \A c \in OrdinaryCalls :
              /\ RLe(c.cov, q33) => c.ret = R(3, 10)
              /\ (RLt(q33, c.cov) /\ RLe(c.cov, q66)) => c.ret = R(1, 2)
              /\ RLt(q66, c.cov) => c.ret = R(4, 5)
        /\ \A c1, c2 \in OrdinaryCalls :
              RLe(c1.cov, c2.cov) => RLe(c1.ret, c2.ret)

\* C9 witness: two calls against a population with distinct thresholds, the
\* lower cov on the threshold itself, landing in different bands
C9_Witness ==
    \E c1, c2 \in OrdinaryCalls :
        /\ RLt(quantile(vf_pop, 33), quantile(vf_pop, 66))
        /\ RLt(c1.cov, c2.cov)
        /\ c1.ret = R(3, 10)
        /\ c2.ret = R(4, 5)

\* C10: classify_lead_time_factor returns 0.75 for lead_time_weeks <= 2,
\* 0.50 for 2 < lead_time_weeks <= 4, 0.30 for lead_time_weeks > 4, and
\* nothing else.
C10_LeadTimeStep ==
    ~IsPending(ltf_call) =>
        LET lt == ltf_call.lead_time_weeks
        IN  /\ RLe(lt, Rat(2)) => ltf_call.ret = R(3, 4)
            /\ (RLt(Rat(2), lt) /\ RLe(lt, Rat(4))) => ltf_call.ret = R(1, 2)
            /\ RLt(Rat(4), lt) => ltf_call.ret = R(3, 10)
            /\ ltf_call.ret \in {R(3, 4), R(1, 2), R(3, 10)}

\* C10 witness: the boundary 4 falls in the medium band
C10_Witness ==
    /\ ~IsPending(ltf_call)
    /\ ltf_call.lead_time_weeks = Rat(4)
    /\ ltf_call.ret = R(1, 2)

\* the demand-adjustment factor of a SKU in its master parameters
\* (clean_inputs.py 97), 1 when the SKU has none
DafOf(sku) ==
    IF inputs.sku_data[sku].master = <<>> THEN Rat(1)
    ELSE inputs.sku_data[sku].master[1].DAF

\* C7: in a planning run every PlanResult is sized from adjusted_adu =
\* weekly_adu * DAF with the SKU's DAF of its master parameters: its yellow
\* zone is weekly_adu * DAF * lead_time_weeks.
C7_ZonesUseMasterDAF ==
    \A i \in 1..Len(all_results) :
        LET r == all_results[i]
        IN  r.YellowZone = RMul(RMul(r.WeeklyADU, DafOf(r.SKU)), MasterOf(r.SKU).lt_weeks)

\* C8: in a planning run the exception SKU is always sized with the
\* variability factor 1.5, every other SKU with one of 0.3, 0.5, 0.8.
C8_ExceptionSkuFactor ==
    ("fields" \in DOMAIN outcome) =>
        IF outcome.sku = EXCEPTION_SKU
        THEN outcome.fields.VariabilityFactor = R(3, 2)
        ELSE outcome.fields.VariabilityFactor \in {R(3, 10), R(1, 2), R(4, 5)}

----------------------------------------------------------------------------
(* Qualified demand                                                        *)

\* the open quantities of the orders of qd_in at the positions I, added up
RECURSIVE OpenQtyOver(_)
OpenQtyOver(I) ==
    IF I = {} THEN Rat(0)
    ELSE LET i == CHOOSE j \in I : TRUE
         IN  RAdd(qd_in.sales_orders_df[i].OpenQty, OpenQtyOver(I \ {i}))

\* the positions of the orders of qd_in due before today, due today, and due
\* after today but no later than lead_time_weeks * 7 days from today
PastDueOrders ==
    {i \in DOMAIN qd_in.sales_orders_df :
        LET due == qd_in.sales_orders_df[i].DueDate
        IN  due /= 0 /\ due < qd_in.today}

DueTodayOrders ==
    {i \in DOMAIN qd_in.sales_orders_df :
        qd_in.sales_orders_df[i].DueDate = qd_in.today}

HorizonOrders ==
    {i \in DOMAIN qd_in.sales_orders_df :
        LET due == qd_in.sales_orders_df[i].DueDate
        IN  /\ due > qd_in.today
            /\ RLe(Rat(due - qd_in.today), RMul(qd_in.lead_time_weeks, Rat(7)))}

\* C11: calculate_qualified_demand returns past_due + due_today + spikes,
\* the spikes being the orders due in (today, today + lead_time_weeks * 7
\* days] whose own open quantity is strictly greater than the ADU threshold,
\* each compared on its own; adu 10, lead time 1, 5 past due and 20 due in 3
\* days give 25, two orders of 6 in the horizon give no spike, no orders
\* give 0.
C11_QualifiedDemandSum ==
    ~IsPending(qd_out) =>
        LET Spikes == {i \in HorizonOrders :
                          /\ RLt(Rat(0), qd_in.adu)
                          /\ RLt(qd_in.adu, qd_in.sales_orders_df[i].OpenQty)}
        IN  /\ qd_out.ret = OpenQtyOver(PastDueOrders \cup DueTodayOrders \cup Spikes)
            /\ qd_in.sales_orders_df = <<>> => qd_out.ret = Rat(0)
            /\ ( /\ qd_in.adu = Rat(10) /\ qd_in.lead_time_weeks = Rat(1)
                 /\ qd_in.sales_orders_df = <<[DueDate |-> 9, OpenQty |-> Rat(5)],
                                              [DueDate |-> 13, OpenQty |-> Rat(20)]>> )
               => qd_out.ret = Rat(25)
            /\ ( /\ qd_in.adu = Rat(10) /\ qd_in.lead_time_weeks = Rat(1)
                 /\ qd_in.sales_orders_df = <<[DueDate |-> 13, OpenQty |-> Rat(6)],
                                              [DueDate |-> 17, OpenQty |-> Rat(6)]>> )
               => qd_out.ret = Rat(0)

\* two orders of 6 in the horizon, together above an ADU of 10, were passed
\* and added nothing
C11_Witness ==
    /\ ~IsPending(qd_out)
    /\ qd_in.adu = Rat(10) /\ qd_in.lead_time_weeks = Rat(1)
    /\ qd_in.sales_orders_df = <<[DueDate |-> 13, OpenQty |-> Rat(6)],
                                 [DueDate |-> 17, OpenQty |-> Rat(6)]>>
    /\ qd_out.ret = Rat(0)

\* C12: when the ADU passed to calculate_qualified_demand is <= 0, no future
\* order qualifies as a spike, whatever its open quantity: the result is
\* past_due + due_today.
C12_NoSpikeWithoutDemand ==
    (~IsPending(qd_out) /\ RLe(qd_in.adu, Rat(0))) =>
        qd_out.ret = OpenQtyOver(PastDueOrders \cup DueTodayOrders)

\* an ADU of 0, 5 past due and 20 due within the horizon: 5 was returned
C12_Witness ==
    /\ ~IsPending(qd_out)
    /\ qd_in.adu = Rat(0) /\ qd_in.lead_time_weeks = Rat(1)
    /\ qd_in.sales_orders_df = <<[DueDate |-> 9, OpenQty |-> Rat(5)],
                                 [DueDate |-> 13, OpenQty |-> Rat(20)]>>
    /\ qd_out.ret = Rat(5)

----------------------------------------------------------------------------
(* The planning run                                                        *)

\* the weekly records of a SKU as load_and_clean_data returned them
RecordsOf(sku) == inputs.sku_data[sku].rows

\* the production orders recorded for the weeks w..NumWeeks of a SKU, added
\* up, a missing quantity counting 0
RECURSIVE OrdersFrom(_, _)
OrdersFrom(sku, w) ==
    IF w > Len(RecordsOf(sku)) THEN Rat(0)
    ELSE LET q == RecordsOf(sku)[w].ProductionOrders
         IN  RAdd(IF IsNaN(q) THEN Rat(0) ELSE q, OrdersFrom(sku, w + 1))

\* C13: the net flow of every PlanResult is on_hand + on_order -
\* qualified_demand, on_hand being the inventory of the reference week and
\* on_order the production orders of the weeks at or after the reference
\* week; a negative value is kept as it is.
C13_NetFlowOfPlanResult ==
    \A i \in 1..Len(all_results) :
        LET r == all_results[i]
        IN  /\ r.Inventory = RecordsOf(r.SKU)[r.CurrentWeek].Inventory
            /\ r.OnOrder = OrdersFrom(r.SKU, r.CurrentWeek)
            /\ r.NetFlow = RSub(RAdd(r.Inventory, r.OnOrder), r.QualifiedDemand)

\* a SKU planned from reference week 2 with orders of 5 in every week and
\* more qualified demand than supply: on_order 10 and a negative net flow
C13_Witness ==
    \E i \in 1..Len(all_results) :
        /\ all_results[i].CurrentWeek = 2
        /\ all_results[i].OnOrder = Rat(10)
        /\ RLt(all_results[i].NetFlow, Rat(0))

----------------------------------------------------------------------------
(* Zero demand                                                             *)

\* calculate_ddmrp_fields ran on a window whose weekly_adu is 0
SizedWithoutDemand == ~IsPending(zone_out) /\ zone_out.fields.WeeklyADU = Rat(0)

\* C14: when weekly_adu is 0, calculate_ddmrp_fields yields red_base,
\* red_safety, red_zone, yellow and green all 0, for every MOQ >= 0, lead
\* time and oversized flag.
C14_ZeroDemandZeroZones ==
    SizedWithoutDemand =>
        LET f == zone_out.fields
        IN  /\ f.RedBase = Rat(0) /\ f.RedSafety = Rat(0) /\ f.RedZone = Rat(0)
            /\ f.YellowZone = Rat(0) /\ f.GreenZone = Rat(0)

\* C14, amended: when weekly_adu is 0, red_base, red_safety, red_zone and
\* yellow are 0 and green is the MOQ (0 only for an MOQ of 0), for every
\* MOQ >= 0, lead time and oversized flag; no zone is negative.
C14_ZeroDemandGreenIsMoq ==
    SizedWithoutDemand =>
        LET f == zone_out.fields
        IN  /\ f.RedBase = Rat(0) /\ f.RedSafety = Rat(0) /\ f.RedZone = Rat(0)
            /\ f.YellowZone = Rat(0)
            /\ f.GreenZone = zone_in.moq
            /\ RLe(Rat(0), f.GreenZone)

\* an oversized SKU without demand and with an MOQ of 5 was sized
C14_Witness ==
    /\ SizedWithoutDemand
    /\ zone_in.moq = Rat(5) /\ zone_in.is_340
    /\ zone_out.fields.GreenZone = Rat(5)

\* C15: a SKU whose weekly_adu is 0 is always green: whatever its on_hand,
\* on_order, qualified demand (also one above on_hand + on_order), MOQ and
\* rounding increment, the recommended production of its PlanResult is 0.
C15_DegenerateBufferAlwaysGreen ==
    \A i \in 1..Len(all_results) :
        all_results[i].WeeklyADU = Rat(0) =>
            all_results[i].RecommendedProduction = Rat(0)

----------------------------------------------------------------------------
(* Skips, errors and repeated runs                                         *)

\* the last step processed a SKU (an iteration of the loop of main)
SkuProcessed ==
    "kind" \in DOMAIN outcome /\ outcome.kind \notin {"start", "finished"}

\* C16: whatever the inputs (a lead time that is no integer included),
\* processing a SKU ends with one PlanResult appended or with a skip, and
\* the run goes on with the next SKU: no SKU aborts the run.
C16_PlannedOrSkipped ==
    /\ pc /= "crashed"
    /\ SkuProcessed =>
          outcome.kind \in {"planned", "not_mts", "no_inventory", "no_target_week"}

\* C17: the summary plan the latest run wrote holds one PlanResult per SKU
\* planned in that run and nothing of an earlier run: no two of its records
\* are of the same SKU, and it has no more records than the run had SKUs.
C17_SummaryOfLatestRunOnly ==
    summary_csv.exists =>
        /\ Len(summary_csv.rows) <= Len(unique_skus)
        /\ \A i, j \in 1..Len(summary_csv.rows) :
              summary_csv.rows[i].SKU = summary_csv.rows[j].SKU => i = j

\* C18: the pipeline run again on the same inputs yields the same PlanResult
\* for every SKU, whenever it runs and whatever ran before: any two
\* PlanResults of one SKU are equal.
C18_SameInputsSameResult ==
    \A i, j \in 1..Len(all_results) :
        all_results[i].SKU = all_results[j].SKU => all_results[i] = all_results[j]

\* the MRP Type Indicators the records of a SKU carry
IndicatorsOf(sku) ==
    {RecordsOf(sku)[w].MRPTypeIndicator : w \in 1..Len(RecordsOf(sku))}

\* C19: a SKU is excluded by the MRP type filter exactly when all its
\* weekly records carry one and the same MRP type and that type is not
\* make-to-stock; such a SKU never has a PlanResult.
C19_ExcludedIffUniformlyNotMTS ==
    /\ SkuProcessed =>
          (outcome.kind = "not_mts" <=>
              /\ Cardinality(IndicatorsOf(outcome.sku)) = 1
              /\ IndicatorsOf(outcome.sku) /= {"X0"})
    /\ \A i \in 1..Len(all_results) :
          ~ /\ Cardinality(IndicatorsOf(all_results[i].SKU)) = 1
            /\ IndicatorsOf(all_results[i].SKU) /= {"X0"}

----------------------------------------------------------------------------
(* The reference week                                                      *)

\* the weeks in which the records of a SKU show an inventory above 0
StockedWeeks(sku) ==
    {w \in 1..Len(RecordsOf(sku)) :
        /\ ~IsNaN(RecordsOf(sku)[w].Inventory)
        /\ RLt(Rat(0), RecordsOf(sku)[w].Inventory)}

\* the quantities a SKU sold in the weeks 1..w, added up
RECURSIVE SoldUpTo(_, _)
SoldUpTo(sku, w) ==
    IF w = 0 THEN Rat(0)
    ELSE RAdd(RecordsOf(sku)[w].QuantitySold, SoldUpTo(sku, w - 1))

\* C20: the reference week of every planned SKU is the latest week whose
\* inventory is strictly positive, and its weekly ADU is taken over exactly
\* the weeks at or before that week; a SKU without such a week is skipped
\* and has no PlanResult.
C20_ReferenceWeek ==
    /\ \A i \in 1..Len(all_results) :
          LET r == all_results[i]
          IN  /\ r.CurrentWeek \in StockedWeeks(r.SKU)
              /\ \A w \in StockedWeeks(r.SKU) : w <= r.CurrentWeek
              /\ r.WeeklyADU = RDiv(SoldUpTo(r.SKU, r.CurrentWeek), Rat(r.CurrentWeek))
    /\ SkuProcessed =>
          /\ outcome.kind = "no_inventory" => StockedWeeks(outcome.sku) = {}
          /\ StockedWeeks(outcome.sku) = {} => outcome.kind \in {"no_inventory", "not_mts"}

\* a SKU that sold 0, 10, 10 and had stock in weeks 1 and 2 was planned from
\* week 2 with a weekly ADU of 5, and the next SKU, never in stock, skipped
C20_Witness ==
    /\ SkuProcessed /\ outcome.kind = "no_inventory"
    /\ \E i \in 1..Len(all_results) :
          /\ all_results[i].CurrentWeek = 2
          /\ all_results[i].WeeklyADU = Rat(5)
          /\ StockedWeeks(all_results[i].SKU) = {1, 2}

----------------------------------------------------------------------------
(* The target week                                                         *)

\* the latest week in which a SKU had stock
ReferenceWeekOf(sku) == CHOOSE w \in StockedWeeks(sku) : \A v \in StockedWeeks(sku) : v <= w

\* C21: for every SKU with a reference week the target week is the week
\* lead_time_weeks positions after the reference week in the sorted weeks
\* of the SKU; when that position is beyond the last week the SKU is
\* skipped, without a PlanResult, and the run goes on.
C21_TargetWeekByLeadTime ==
    /\ (SkuProcessed /\ outcome.kind /= "not_mts" /\ StockedWeeks(outcome.sku) /= {}) =>
          LET position == RAdd(Rat(ReferenceWeekOf(outcome.sku)),
                               MasterOf(outcome.sku).lt_weeks)
          IN  IF RLt(Rat(Len(RecordsOf(outcome.sku))), position)
              THEN outcome.kind = "no_target_week" /\ pc = "loop"
              ELSE /\ outcome.kind = "planned"
                   /\ Rat(outcome.output_data.TargetWeek) = position
    /\ \A i \in 1..Len(all_results) :
          Rat(all_results[i].TargetWeek) =
              RAdd(Rat(all_results[i].CurrentWeek), MasterOf(all_results[i].SKU).lt_weeks)

----------------------------------------------------------------------------
(* The population of covs                                                  *)

\* std / mean of all quantities the SKU at position i of the run sold
CovOfSku(i) ==
    LET q == [w \in 1..Len(RecordsOf(inputs.skus[i])) |->
                 RecordsOf(inputs.skus[i])[w].QuantitySold]
    IN  IF Mean(q) = Rat(0) THEN NaN ELSE RDiv(Std(q), Mean(q))

\* the population of covs of the inputs, one for every SKU
CovSnapshot == [i \in 1..Len(inputs.skus) |-> CovOfSku(i)]

\* C22: in every run the population of covs is complete before the first
\* SKU is classified, every classification of the run reads it, and it does
\* not change while the SKUs are processed.
C22_SnapshotBeforeClassification ==
    /\ pc = "loop" => all_covs_data = CovSnapshot
    /\ (SkuProcessed /\ outcome.kind = "planned") =>
          /\ all_covs_data = CovSnapshot
          /\ outcome.fields.VariabilityFactor =
                 classify_variability_factor(outcome.fields.CoV, CovSnapshot, 0)

\* the second SKU of a run was classified after the first, the first with
\* the factor 0.8 that only the complete population gives it
C22_Witness ==
    /\ SkuProcessed /\ outcome.kind = "planned" /\ runs = 1
    /\ Len(all_results) = 2
    /\ outcome.sku = inputs.skus[2]
    /\ all_results[1].SKU = inputs.skus[1]
    /\ classify_variability_factor(all_results[1].CoV, CovSnapshot, 0) = R(4, 5)
    /\ classify_variability_factor(all_results[1].CoV, <<CovOfSku(1)>>, 0) = R(3, 10)

\* the quantities a SKU sold, those of the weeks after week ref put to 0
SoldUntil(sku, ref) ==
    [w \in 1..Len(RecordsOf(sku)) |->
        IF w > ref THEN Rat(0) ELSE RecordsOf(sku)[w].QuantitySold]

\* what the run computes for a SKU with reference week ref on inputs that
\* differ from the given ones in nothing but the quantities the SKUs of Z
\* sold after week ref, which are 0: the population of covs, the frame of
\* the SKU, its fields
FieldsUntil(sku, ref, Z) ==
    LET sold(k) == IF k \in Z THEN SoldUntil(k, ref)
                   ELSE [w \in 1..Len(RecordsOf(k)) |-> RecordsOf(k)[w].QuantitySold]
        df == [w \in 1..Len(RecordsOf(sku)) |->
                  [master_df(sku)[w] EXCEPT !.QuantitySold = sold(sku)[w]]]
        covs == [i \in 1..Len(inputs.skus) |->
                    LET q == sold(inputs.skus[i])
                    IN  IF Mean(q) = Rat(0) THEN NaN ELSE RDiv(Std(q), Mean(q))]
    IN  calculate_ddmrp_fields(df, MasterOf(sku).moq, MasterOf(sku).lt_weeks, Rat(1),
                               covs, ref, MasterOf(sku).is_340, 0)

\* C23: the buffer zones of a SKU depend on the weeks up to its reference
\* week only: on inputs that differ in nothing but quantities sold, by any
\* SKU, after the reference week, its weekly ADU, CoV, lead-time factor,
\* variability factor and red, yellow and green zones are the same.
C23_ZonesFromWindowOnly ==
    (SkuProcessed /\ outcome.kind = "planned") =>
        \A Z \in SUBSET DOMAIN inputs.sku_data :
            LET f == outcome.fields
                g == FieldsUntil(outcome.sku, outcome.output_data.CurrentWeek, Z)
            IN  /\ f.WeeklyADU = g.WeeklyADU /\ f.CoV = g.CoV
                /\ f.LeadTimeFactor = g.LeadTimeFactor
                /\ f.VariabilityFactor = g.VariabilityFactor
                /\ f.RedBase = g.RedBase /\ f.RedSafety = g.RedSafety
                /\ f.RedZone = g.RedZone
                /\ f.YellowZone = g.YellowZone /\ f.GreenZone = g.GreenZone

----------------------------------------------------------------------------
(* The recommended quantity                                                *)

\* the production decision ran
Decided == ~IsPending(dec_out)

\* C24: with an MOQ >= 0 the recommended production is never negative and
\* is either 0 or at least the MOQ; with a rounding increment > 0 it is an
\* integer multiple of the increment.
C24_ZeroOrAtLeastMoq ==
    (Decided /\ RLe(Rat(0), dec_in.moq)) =>
        LET rec == dec_out.recommended_production
        IN  /\ RLe(Rat(0), rec)
            /\ rec = Rat(0) \/ RLe(dec_in.moq, rec)
            /\ HasIncrement(dec_in.rounding_value) =>
                  RDiv(rec, dec_in.rounding_value)[2] = 1

\* an increment of 5 and an MOQ of 13: 15 was recommended
C24_Witness ==
    /\ Decided
    /\ dec_in.rounding_value = Rat(5) /\ dec_in.moq = Rat(13)
    /\ dec_out.recommended_production = Rat(15)

\* C25: a recommended production > 0 is at least the raw recommendation, so
\* net_flow + recommended production >= top_of_green, in both rounding
\* branches.
C25_CoversRawRecommendation ==
    (Decided /\ RLt(Rat(0), dec_out.recommended_production)) =>
        /\ RLe(dec_out.raw, dec_out.recommended_production)
        /\ RLe(dec_out.green_top,
               RAdd(dec_out.net_flow, dec_out.recommended_production))

\* C25, amended: a recommended production > 0 is at least the raw
\* recommendation less 0.0001, so net_flow + recommended production >=
\* top_of_green - 0.0001; with a rounding increment > 0 it is at least the
\* raw recommendation and reaches top_of_green.
C25_CoversRawWithinTenThousandth ==
    (Decided /\ RLt(Rat(0), dec_out.recommended_production)) =>
        /\ RLe(RSub(dec_out.raw, R(1, 10000)), dec_out.recommended_production)
        /\ RLe(RSub(dec_out.green_top, R(1, 10000)),
               RAdd(dec_out.net_flow, dec_out.recommended_production))
        /\ HasIncrement(dec_in.rounding_value) =>
              /\ RLe(dec_out.raw, dec_out.recommended_production)
              /\ RLe(dec_out.green_top,
                     RAdd(dec_out.net_flow, dec_out.recommended_production))

\* a raw recommendation of 10.00005 without an increment: 10 was recommended
C25_Witness ==
    /\ Decided
    /\ ~HasIncrement(dec_in.rounding_value)
    /\ dec_out.raw = R(200001, 20000)
    /\ dec_out.recommended_production = Rat(10)

----------------------------------------------------------------------------
(* The lookup of a plan                                                    *)

\* the records of the summary file of the SKU asked for
RecordsAskedFor ==
    {i \in 1..Len(summary_csv.rows) : summary_csv.rows[i].SKU = plan_call.sku_id}

\* C26: calculate_ddmrp_plan(sku_id) returns an error or one record of the
\* summary plan whose SKU is sku_id, never the record of another SKU; it
\* returns an error when the file is missing or has no record of that SKU.
C26_LookupReturnsRequestedSku ==
    ~IsPending(plan_call) =>
        /\ "row" \in DOMAIN plan_call.ret =>
              /\ plan_call.ret.row.SKU = plan_call.sku_id
              /\ \E i \in RecordsAskedFor : summary_csv.rows[i] = plan_call.ret.row
        /\ (~summary_csv.exists \/ RecordsAskedFor = {}) =>
              "error" \in DOMAIN plan_call.ret

============================================================================
